---- MODULE Spec2Model ----
(***************************************************************************)
(* Connection-string parsing of packages/edge-config/src/utils/index.ts.   *)
(*                                                                         *)
(* A string is a sequence of lexemes: the URL delimiters                   *)
(*     "://"  ":"  "@"  "/"  "?"  "&"  "="  "#"                            *)
(* and words that contain none of them.  "ecfg" and "_" are separate       *)
(* words, so startsWith('/ecfg') and startsWith('/ecfg_') are prefix tests *)
(* on lexeme sequences.  JavaScript null is the one-lexeme string Null,    *)
(* which no input contains.                                                *)
(***************************************************************************)
EXTENDS Integers, Sequences, FiniteSets, TLC

\* ------------------------------------------------------------------ bounds
\* most "/"-separated segments in an input's path
MaxSegs == 2
\* most "&"-separated parameters in an input's query
MaxParams == 2

\* ----------------------------------------------------------- string helpers
Null == <<"<null>">>

\* JavaScript `!s` for s : string | null
Falsy(s) == s = Null \/ s = <<>>

\* String.prototype.startsWith
startsWith(s, prefix) ==
    /\ Len(s) >= Len(prefix)
    /\ SubSeq(s, 1, Len(prefix)) = prefix

\* position of the first occurrence of lexeme d in s, 0 when there is none
IndexOf(s, d) ==
    IF \E i \in 1..Len(s) : s[i] = d
    THEN CHOOSE i \in 1..Len(s) : s[i] = d /\ \A j \in 1..(i - 1) : s[j] # d
    ELSE 0

Before(s, i) == SubSeq(s, 1, i - 1)
After(s, i) == SubSeq(s, i + 1, Len(s))

\* String.prototype.split(d): the pieces of s between occurrences of d
RECURSIVE split(_, _)
split(s, d) ==
    LET i == IndexOf(s, d)
    IN  IF i = 0 THEN <<s>> ELSE <<Before(s, i)>> \o split(After(s, i), d)

\* a[i] of a JavaScript array (indices from 0): undefined, which is falsy
\* like null and modelled by Null, when i is out of range
At(a, i) == IF i + 1 \in 1..Len(a) THEN a[i + 1] ELSE Null

\* ------------------------------------------------------------ the URL class
Lower(w) ==
    CASE w = "EDGE-CONFIG.VERCEL.COM" -> "edge-config.vercel.com"
      [] w = "HTTPS" -> "https"
      [] OTHER -> w

SpecialSchemes == {"https", "http"}

DefaultPort(protocol) == IF protocol = "https" THEN <<"443">> ELSE <<"80">>

Ports == {<<"443">>, <<"80">>, <<"8080">>}

\* the exception `new URL` raises on a string that is no absolute URL
Invalid ==
    [ok |-> FALSE, protocol |-> "", userinfo |-> <<>>, hostname |-> <<>>,
     port |-> <<>>, pathname |-> <<>>, query |-> Null, fragment |-> Null]

\* new URL(text): scheme "://" [userinfo "@"] hostname [":" port] [path]
\* ["?" query] ["#" fragment]; scheme and host are lower-cased, the scheme's
\* default port is dropped, an absent path is "/".
URL(text) ==
    IF Len(text) < 2 \/ Lower(text[1]) \notin SpecialSchemes \/ text[2] # "://"
    THEN Invalid
    ELSE
    LET protocol == Lower(text[1])
        rest     == SubSeq(text, 3, Len(text))
        h        == IndexOf(rest, "#")
        noFrag   == IF h = 0 THEN rest ELSE Before(rest, h)
        fragment == IF h = 0 THEN Null ELSE After(rest, h)
        q        == IndexOf(noFrag, "?")
        noQuery  == IF q = 0 THEN noFrag ELSE Before(noFrag, q)
        query    == IF q = 0 THEN Null ELSE After(noFrag, q)
        p        == IndexOf(noQuery, "/")
        auth     == IF p = 0 THEN noQuery ELSE Before(noQuery, p)
        pathname == IF p = 0 THEN <<"/">> ELSE SubSeq(noQuery, p, Len(noQuery))
        a        == IndexOf(auth, "@")
        userinfo == IF a = 0 THEN <<>> ELSE Before(auth, a)
        hostport == IF a = 0 THEN auth ELSE After(auth, a)
        c        == IndexOf(hostport, ":")
        rawhost  == IF c = 0 THEN hostport ELSE Before(hostport, c)
        rawport  == IF c = 0 THEN <<>> ELSE After(hostport, c)
    IN  IF Len(rawhost) # 1 \/ (rawport # <<>> /\ rawport \notin Ports)
        THEN Invalid
        ELSE [ok |-> TRUE,
              protocol |-> protocol,
              userinfo |-> userinfo,
              hostname |-> <<Lower(rawhost[1])>>,
              port     |-> IF rawport = DefaultPort(protocol) THEN <<>> ELSE rawport,
              pathname |-> pathname,
              query    |-> query,
              fragment |-> fragment]

\* url.host
host(url) ==
    url.hostname \o (IF url.port = <<>> THEN <<>> ELSE <<":">> \o url.port)

\* url.searchParams.get(name): the value of the first parameter called name,
\* null when there is none
RECURSIVE firstValue(_, _)
firstValue(params, name) ==
    IF params = <<>> THEN Null
    ELSE LET kv == Head(params)
             e  == IndexOf(kv, "=")
             k  == IF e = 0 THEN kv ELSE Before(kv, e)
             v  == IF e = 0 THEN <<>> ELSE After(kv, e)
         IN  IF kv # <<>> /\ k = <<name>> THEN v
             ELSE firstValue(Tail(params), name)

searchParamsGet(url, name) ==
    IF url.query = Null THEN Null ELSE firstValue(split(url.query, "&"), name)

\* url.search = ''
clearSearch(url) == [url EXCEPT !.query = Null]

\* url.toString()
toString(url) ==
    <<url.protocol, "://">>
    \o (IF url.userinfo = <<>> THEN <<>> ELSE url.userinfo \o <<"@">>)
    \o host(url)
    \o url.pathname
    \o (IF url.query = Null THEN <<>> ELSE <<"?">> \o url.query)
    \o (IF url.fragment = Null THEN <<>> ELSE <<"#">> \o url.fragment)

\* ------------------------------------------------------------- Connection
\* the value null of type Connection | null
NoConnection ==
    [type |-> "null", baseUrl |-> <<>>, id |-> <<>>, token |-> <<>>,
     version |-> <<>>]

\* an exception leaving the function instead of a return value
Thrown ==
    [type |-> "throw", baseUrl |-> <<>>, id |-> <<>>, token |-> <<>>,
     version |-> <<>>]

VercelHost == <<"edge-config.vercel.com">>
VercelPrefix == <<"/", "ecfg">>
ExternalPrefix == <<"/", "ecfg", "_">>

\* --------------------------------------------- parseVercelConnectionString
vercelBaseUrl_NoSlash(id) ==
    <<"https", "://">> \o VercelHost \o id

\* `https://edge-config.vercel.com/${id}`
vercelBaseUrl(id) ==
    <<"https", "://">> \o VercelHost \o <<"/">> \o id

vercelToken_NullOnly(token) == token # Null

\* the guard of line 73, negated: the token is accepted
vercelToken(token) == ~(Falsy(token) \/ token = <<>>)

\* the body of the try block, once new URL has returned
vercelFromUrl(url) ==
    IF host(url) # VercelHost THEN NoConnection
    ELSE IF url.protocol # "https" THEN NoConnection
    ELSE IF ~startsWith(url.pathname, VercelPrefix) THEN NoConnection
    ELSE
    LET id    == At(split(url.pathname, "/"), 1)
        token == searchParamsGet(url, "token")
    IN  IF Falsy(id) THEN NoConnection
        ELSE IF ~vercelToken(token) THEN NoConnection
        ELSE [type    |-> "vercel",
              baseUrl |-> vercelBaseUrl(id),
              id      |-> id,
              version |-> <<"1">>,
              token   |-> token]

parseVercelConnectionString(text) ==
    LET url == URL(text)
    IN  IF ~url.ok THEN NoConnection ELSE vercelFromUrl(url)

\* ------------------------------------------- parseExternalConnectionString
externalId_QueryFirst(url) ==
    LET id == searchParamsGet(url, "id")
    IN  IF Falsy(id)
        THEN LET seg == At(split(url.pathname, "/"), 1)
             IN  IF Falsy(seg) THEN Null ELSE seg
        ELSE id

\* lines 118 and 123-125: the id parameter, replaced by the first path
\* segment when it is missing or the path starts with /ecfg_
externalId(url) ==
    LET id == searchParamsGet(url, "id")
    IN  IF Falsy(id) \/ startsWith(url.pathname, ExternalPrefix)
        THEN LET seg == At(split(url.pathname, "/"), 1)
             IN  IF Falsy(seg) THEN Null ELSE seg
        ELSE id

externalVersion_NoDefault(url) ==
    LET v == searchParamsGet(url, "version")
    IN  IF v = Null THEN <<"1">> ELSE v

\* url.searchParams.get('version') || '1'
externalVersion(url) ==
    LET v == searchParamsGet(url, "version")
    IN  IF Falsy(v) THEN <<"1">> ELSE v

externalBaseUrl_KeepSearch(url) == toString(url)

\* url.search = ''; baseUrl: url.toString()
externalBaseUrl(url) == toString(clearSearch(url))

\* the body of the try block, once new URL has returned
externalFromUrl(url) ==
    LET id      == externalId(url)
        token   == searchParamsGet(url, "token")
        version == externalVersion(url)
    IN  IF Falsy(id) \/ Falsy(token) THEN NoConnection
        ELSE [type    |-> "external",
              baseUrl |-> externalBaseUrl(url),
              id      |-> id,
              token   |-> token,
              version |-> version]

parseExternalConnectionString_NoCatch(connectionString) ==
    LET url == URL(connectionString)
    IN  IF ~url.ok THEN Thrown ELSE externalFromUrl(url)

parseExternalConnectionString(connectionString) ==
    LET url == URL(connectionString)
    IN  IF ~url.ok THEN NoConnection ELSE externalFromUrl(url)

\* ---------------------------------------------------- parseConnectionString
\* if (connection) return connection; return <fallback>
orElse(connection, fallback) ==
    IF connection.type # "null" THEN connection ELSE fallback

parseConnectionString_ExternalFirst(connectionString) ==
    orElse(parseExternalConnectionString(connectionString),
           parseVercelConnectionString(connectionString))

parseConnectionString_NoFallback(connectionString) ==
    IF URL(connectionString).hostname = VercelHost
    THEN parseVercelConnectionString(connectionString)
    ELSE parseExternalConnectionString(connectionString)

parseConnectionString(connectionString) ==
    orElse(parseVercelConnectionString(connectionString),
           parseExternalConnectionString(connectionString))

\* ------------------------------------------------------------------ inputs
Schemes == {<<"https", "://">>, <<"http", "://">>}
UserInfos == {<<>>, <<"user", ":", "pw", "@">>}
Hosts == {<<"edge-config.vercel.com">>, <<"EDGE-CONFIG.VERCEL.COM">>,
          <<"example.com">>}
PortSuffixes == {<<>>, <<":", "443">>, <<":", "8080">>}
FirstSegments == {<<>>, <<"ecfg", "_", "abc">>, <<"ecfg">>, <<"foo">>}
Fragments == {<<>>, <<"#", "frag">>}
Params == {<<"id", "=", "abc">>, <<"id", "=">>, <<"token", "=", "tkn">>,
           <<"token", "=">>, <<"version", "=", "2">>, <<"version", "=">>}

RECURSIVE Repeat(_, _)
Repeat(s, n) == IF n = 0 THEN <<>> ELSE s \o Repeat(s, n - 1)

\* no path at all, or "/" first-segment followed by further "/x" segments
Paths ==
    {<<>>} \cup
    {<<"/">> \o f \o Repeat(<<"/", "x">>, n) :
        f \in FirstSegments, n \in 0..(MaxSegs - 1)}

RECURSIVE Join(_)
Join(ps) ==
    IF ps = <<>> THEN <<>>
    ELSE IF Len(ps) = 1 THEN ps[1]
    ELSE ps[1] \o <<"&">> \o Join(Tail(ps))

\* no query at all, or "?" followed by up to MaxParams parameters
Queries ==
    {<<>>} \cup
    UNION {{<<"?">> \o Join(ps) : ps \in [1..n -> Params]} : n \in 0..MaxParams}

\* an absolute URL written out from its parts
Compose(s, u, h, p, path, q, f) == s \o u \o h \o p \o path \o q \o f

\* strings that are no absolute URL: empty, a bare word, no scheme, no host,
\* a port that is no number
Malformed ==
    {<<>>, <<"foo">>} \cup
    {pre \o <<"/", "ecfg", "_", "abc">> \o q :
        pre \in {<<>>, <<"edge-config.vercel.com">>, <<"https", "://">>,
                 <<"https", "://", "example.com", ":", "foo">>},
        q \in Queries}

\* a URL that carries a Connection's fields: its baseUrl followed by a query
\* with id, token and version
Reconstruct(c) ==
    c.baseUrl \o <<"?", "id", "=">> \o c.id \o <<"&", "token", "=">> \o c.token
    \o <<"&", "version", "=">> \o c.version

\* ----------------------------------------------------------- state machine
VARIABLES text, pc, result, replay
vars == <<text, pc, result, replay>>

Init ==
    /\ \/ \E s \in Schemes, u \in UserInfos, h \in Hosts, p \in PortSuffixes,
             path \in Paths, q \in Queries, f \in Fragments :
               text = Compose(s, u, h, p, path, q, f)
       \/ text \in Malformed
    /\ pc = "start"
    /\ result = NoConnection
    /\ replay = NoConnection

\* a caller evaluates parseConnectionString(text)
Parse ==
    /\ pc = "start"
    /\ result' = parseConnectionString(text)
    /\ pc' = "returned"
    /\ UNCHANGED <<text, replay>>

\* a caller parses the URL rebuilt from the Connection it received
RoundTrip ==
    /\ pc = "returned"
    /\ result.type \in {"vercel", "external"}
    /\ replay' = parseConnectionString(Reconstruct(result))
    /\ pc' = "replayed"
    /\ UNCHANGED <<text, result>>

Next == Parse \/ RoundTrip

Spec == Init /\ [][Next]_vars

\* the input as new URL sees it
parsed == URL(text)
Returned == pc # "start"
IsConnection(c) == c.type \in {"vercel", "external"}

\* the lexemes between the path's leading "/" and its next "/"
FirstSegment(pathname) ==
    LET r == Tail(pathname)
        i == IndexOf(r, "/")
    IN  IF i = 0 THEN r ELSE Before(r, i)

NonEmpty(s) == s # Null /\ Len(s) > 0

qToken == searchParamsGet(parsed, "token")
qId == searchParamsGet(parsed, "id")
qVersion == searchParamsGet(parsed, "version")

\* ------------------------------------------------------------------ claims

VendorShape ==
    /\ parsed.ok
    /\ parsed.protocol = "https"
    /\ parsed.hostname = VercelHost
    /\ parsed.port = <<>>
    /\ startsWith(parsed.pathname, VercelPrefix)
    /\ NonEmpty(FirstSegment(parsed.pathname))
    /\ NonEmpty(qToken)

\* C2: the result is of type vercel exactly when the input has the vendor
\* shape; such an input is never classified external, whatever id or version
\* parameters it carries.
C2_VendorExactly ==
    Returned => (result.type = "vercel" <=> VendorShape)

C2_Witness ==
    /\ Returned
    /\ VendorShape
    /\ NonEmpty(qId)
    /\ result.type = "vercel"

\* C3: a returned Connection has a non-empty id and a non-empty token, the
\* token being the input's token parameter; an input whose token parameter
\* is absent or empty yields null.
C3_IdAndToken ==
    Returned =>
        /\ IsConnection(result) =>
              /\ NonEmpty(result.id)
              /\ NonEmpty(result.token)
              /\ result.token = qToken
        /\ ~NonEmpty(qToken) => result = NoConnection

C3_Witness ==
    /\ Returned
    /\ parsed.ok
    /\ host(parsed) = VercelHost
    /\ parsed.protocol = "https"
    /\ startsWith(parsed.pathname, ExternalPrefix)
    /\ qToken = <<>>
    /\ result = NoConnection

\* C4: a vendor Connection has the first path segment as id, the vendor
\* origin followed by "/" and the id as baseUrl, the token parameter as
\* token and version "1", whatever id or version parameter the input has.
C4_VendorFields ==
    (Returned /\ result.type = "vercel") =>
        /\ result.id = FirstSegment(parsed.pathname)
        /\ result.baseUrl =
              <<"https", "://", "edge-config.vercel.com", "/">> \o result.id
        /\ result.token = qToken
        /\ result.version = <<"1">>

C4_Witness ==
    /\ Returned
    /\ result.type = "vercel"
    /\ qVersion = <<"2">>
    /\ Len(split(parsed.pathname, "/")) > 2
    /\ parsed.userinfo # <<>>
    /\ parsed.fragment # Null

\* C5: an external Connection's id is the first path segment when the id
\* parameter is absent or empty or the path starts with /ecfg_, and the id
\* parameter otherwise.
C5_ExternalId ==
    (Returned /\ result.type = "external") =>
        result.id =
            IF ~NonEmpty(qId) \/ startsWith(parsed.pathname, ExternalPrefix)
            THEN FirstSegment(parsed.pathname)
            ELSE qId

C5_Witness ==
    /\ Returned
    /\ result.type = "external"
    /\ qId = <<"abc">>
    /\ startsWith(parsed.pathname, ExternalPrefix)
    /\ result.id = <<"ecfg", "_", "abc">>

\* C6: the baseUrl of a returned Connection, read as a URL, has no query.
C6_NoQueryInBaseUrl ==
    (Returned /\ IsConnection(result)) =>
        /\ URL(result.baseUrl).ok
        /\ URL(result.baseUrl).query = Null

C6_Witness ==
    /\ Returned
    /\ result.type = "external"
    /\ NonEmpty(parsed.query)
    /\ parsed.fragment # Null

\* C7: an external Connection's baseUrl is the serialization of the input
\* URL's scheme, host and path and nothing else.
C7_SchemeHostPathOnly ==
    (Returned /\ result.type = "external") =>
        result.baseUrl =
            <<parsed.protocol, "://">> \o host(parsed) \o parsed.pathname

\* C8: a returned Connection has a non-empty version: for an external one
\* the version parameter when present and non-empty and "1" otherwise, for a
\* vendor one always "1".
C8_Version ==
    (Returned /\ IsConnection(result)) =>
        /\ NonEmpty(result.version)
        /\ result.type = "external" =>
              result.version = IF NonEmpty(qVersion) THEN qVersion ELSE <<"1">>
        /\ result.type = "vercel" => result.version = <<"1">>

C8_Witness ==
    /\ Returned
    /\ result.type = "external"
    /\ qVersion = <<>>
    /\ result.version = <<"1">>

\* C9: parsing a returned Connection's baseUrl followed by a query with its
\* id, token and version returns a Connection equal to it in all fields.
C9_RoundTrip ==
    pc = "replayed" => replay = result

\* C10: a URL on the vendor host that fails the vendor scheme, port or prefix
\* condition, with a non-empty token parameter and a resolvable id, yields a
\* Connection of type external.
C10_FallsThrough ==
    ( /\ Returned
      /\ parsed.ok
      /\ parsed.hostname = VercelHost
      /\ \/ parsed.protocol # "https"
         \/ parsed.port # <<>>
         \/ ~startsWith(parsed.pathname, VercelPrefix)
      /\ NonEmpty(qToken)
      /\ NonEmpty(qId) \/ NonEmpty(FirstSegment(parsed.pathname)) )
    => result.type = "external"

C10_Witness ==
    /\ Returned
    /\ parsed.ok
    /\ parsed.hostname = VercelHost
    /\ parsed.protocol = "https"
    /\ parsed.port = <<"8080">>
    /\ startsWith(parsed.pathname, ExternalPrefix)
    /\ result.type = "external"

====
